---------------------------- MODULE Spec2Model ----------------------------
(***************************************************************************)
(* ChatCpp test-management scripts.                                        *)
(*                                                                         *)
(*   scripts/run_tests_xray.py       XrayTestRunner: build, run the test   *)
(*                                   executable under AddressSanitizer,    *)
(*                                   rerun under Valgrind (real or         *)
(*                                   simulated) when a leak is suspected,  *)
(*                                   parse the JUnit XML, write the Xray   *)
(*                                   report.                               *)
(*   scripts/generate_xray_report.py XrayReportGenerator: parse a JUnit    *)
(*                                   XML file, write the Xray report and   *)
(*                                   a summary.                            *)
(*                                                                         *)
(* Five specifications share the variables:                                *)
(*   Spec       one execution of either script, stage by stage             *)
(*   SpecParse  the two parsers applied to a bounded family of documents   *)
(*   SpecScan   _check_memory_leaks applied to a bounded family of texts   *)
(*   SpecBuild  the two report builders applied to a bounded family of     *)
(*              parsed runs, up to MaxBuilds times each                    *)
(*   SpecConc   two executions of run_tests_xray.py writing to one         *)
(*              reports directory                                          *)
(***************************************************************************)
EXTENDS Integers, Sequences, FiniteSets, TLC

VARIABLES
    \* ---- SpecScan
    scan_text,              \* the argument of the latest _check_memory_leaks call
    scan_result,            \* what that call returned
    scan_calls,             \* how many calls were made
    \* ---- SpecParse
    parse_doc,              \* the document handed to the parsers
    runner_parsed,          \* parse_test_results' return value (NotCalled before)
    junit_parsed,           \* parse_junit_xml's return value (NotCalled before)
    \* ---- Spec: environment of one execution
    prog,                   \* which script runs: "runner" | "generator"
    env_demo,               \* ENABLE_MEMORY_LEAK_DEMO is 'true' (any case)
    valgrind_installed,     \* `which valgrind` succeeds
    exe,                    \* build/chat_tests: "missing" | "unrunnable" | "ok"
    input_xml,              \* generator: the file named on the command line
    \* ---- Spec: files
    temp_results_file,      \* build/test_results.xml
    valgrind_xml,           \* build/valgrind_results.xml
    valgrind_log,           \* build/valgrind_log.txt
    reports_dir,            \* test-management/reports: the artifacts written
    \* ---- Spec: the running script
    pc,                     \* position in run() / main()
    build_result,           \* what build_project returned: "none" | "ok" | "failed"
    force_memory_leak_demo, \* the attribute build_project sets: "unset"|"true"|"false"
    memory_leaks_detected,  \* self.memory_leaks_detected
    light,                  \* the AddressSanitizer invocation: ran, returncode, output
    heavy,                  \* the rerun: "none" | "valgrind" | "simulated"
    results_file,           \* what run_tests returned
    test_results,           \* what the parser returned
    xray_report,            \* the report built in memory
    exit_status,            \* "running" | "success" | "failure"
    aborted,                \* the stage that aborted: "none"|"build"|"run"|"parse"|"crash"
    history,                \* the stages entered, in order
    \* ---- SpecBuild: the report builders called on their own
    builder,                \* whose builder is called: "runner" | "generator"
    build_doc,              \* the document the TestRun given to the builder comes from
    build_config,           \* generator: what load_config returned
    build_detected,         \* runner: self.memory_leaks_detected
    build_now,              \* the latest reading of the clock
    built,                  \* the reports built so far, in order
    mapped,                 \* a call of map_status_to_xray: its argument and result
    \* ---- SpecConc: two executions of run_tests_xray.py on one workspace
    wall,                   \* the wall clock, in ticks
    directory,              \* test-management/reports: the files in it
    inv                     \* each execution: the files it has yet to write and wrote

scanVars  == <<scan_text, scan_result, scan_calls>>
parseVars == <<parse_doc, runner_parsed, junit_parsed>>
envVars   == <<prog, env_demo, valgrind_installed, exe, input_xml>>
fileVars  == <<temp_results_file, valgrind_xml, valgrind_log, reports_dir>>
runVars   == <<pc, build_result, force_memory_leak_demo, memory_leaks_detected, light, heavy,
               results_file, test_results, xray_report, exit_status, aborted,
               history>>
pipeVars  == <<envVars, fileVars, runVars>>
buildVars == <<builder, build_doc, build_config, build_detected, build_now, built, mapped>>
concVars  == <<wall, directory, inv>>
vars      == <<scanVars, parseVars, pipeVars, buildVars, concVars>>

-----------------------------------------------------------------------------
(* Bounds of the model.                                                    *)

MaxPad    == 1   \* copies of the noise prefix put before a scanned fragment
MaxCalls  == 2   \* calls of _check_memory_leaks in one behaviour of SpecScan
MaxSuites == 2   \* suite elements in a document
MaxCases  == 1   \* case elements in a suite
MaxCount  == 1   \* largest number written in a count attribute
MaxOdd    == 1   \* malformed numeric attributes in a document
MaxTick   == 1   \* latest reading of the clock, in seconds after the first
MaxBuilds == 2   \* calls of a report builder in one behaviour of SpecBuild
MaxWall   == 3   \* latest tick of the wall clock in SpecConc
TicksPerSecond == 2   \* instants of the wall clock told apart within one second

-----------------------------------------------------------------------------
(* Text: a Python str is a sequence of one-character strings.              *)

UpperLetters == <<"A", "B", "C", "D", "E", "F", "G", "H", "I", "J", "K", "L", "M", "N", "O", "P", "Q", "R", "S", "T", "U", "V", "W", "X", "Y", "Z">>
LowerLetters == <<"a", "b", "c", "d", "e", "f", "g", "h", "i", "j", "k", "l", "m", "n", "o", "p", "q", "r", "s", "t", "u", "v", "w", "x", "y", "z">>

\* the case tables of str.lower() and str.upper(), ASCII letters
UpperToLower ==
    [c \in { UpperLetters[i] : i \in 1..Len(UpperLetters) } |->
        LowerLetters[CHOOSE i \in 1..Len(UpperLetters) : UpperLetters[i] = c]]
LowerToUpper ==
    [c \in { LowerLetters[i] : i \in 1..Len(LowerLetters) } |->
        UpperLetters[CHOOSE i \in 1..Len(LowerLetters) : LowerLetters[i] = c]]

\* str.lower(), one character
LowerChar(c) == IF c \in DOMAIN UpperToLower THEN UpperToLower[c] ELSE c

\* str.upper(), one character
UpperChar(c) == IF c \in DOMAIN LowerToUpper THEN LowerToUpper[c] ELSE c

\* str.lower()
lower(s) == [i \in 1..Len(s) |-> LowerChar(s[i])]

\* str.upper()
upper(s) == [i \in 1..Len(s) |-> UpperChar(s[i])]

\* Python's `needle in haystack` for str
Contains(needle, haystack) ==
    \E i \in 0..(Len(haystack) - Len(needle)) :
        \A j \in 1..Len(needle) : haystack[i + j] = needle[j]

-----------------------------------------------------------------------------
(* XrayTestRunner._check_memory_leaks                                      *)

leak_indicators ==
    << <<"D", "i", "r", "e", "c", "t", " ", "l", "e", "a", "k">>,
       <<"I", "n", "d", "i", "r", "e", "c", "t", " ", "l", "e", "a", "k">>,
       <<"S", "t", "i", "l", "l", " ", "r", "e", "a", "c", "h", "a", "b", "l", "e">>,
       <<"h", "e", "a", "p", "-", "u", "s", "e", "-", "a", "f", "t", "e", "r", "-", "f", "r", "e", "e">>,
       <<"h", "e", "a", "p", "-", "b", "u", "f", "f", "e", "r", "-", "o", "v", "e", "r", "f", "l", "o", "w">>,
       <<"s", "t", "a", "c", "k", "-", "b", "u", "f", "f", "e", "r", "-", "o", "v", "e", "r", "f", "l", "o", "w">>,
       <<"g", "l", "o", "b", "a", "l", "-", "b", "u", "f", "f", "e", "r", "-", "o", "v", "e", "r", "f", "l", "o", "w">>,
       <<"L", "e", "a", "k", "S", "a", "n", "i", "t", "i", "z", "e", "r">> >>

\* A slip: the indicator is lowered, the output is not.
check_memory_leaks_case_sensitive(output) ==
    \E k \in 1..Len(leak_indicators) :
        LET indicator == lower(leak_indicators[k])
        IN  Contains(indicator, output)

\* for indicator in leak_indicators:
\*     if indicator.lower() in output.lower(): return True
\* return False
check_memory_leaks(output) ==
    LET lowered == lower(output)
    IN  \E k \in 1..Len(leak_indicators) :
            LET indicator == lower(leak_indicators[k])
            IN  Contains(indicator, lowered)

-----------------------------------------------------------------------------
(* The texts SpecScan scans: a fragment, with noise before and after.      *)

NoisePrefix == <<"=", "=", "1", "=", "=", "E", "R", "R", "O", "R", ":", " ">>
NoiseSuffix == <<" ", "o", "f", " ", "5", "0", " ", "b", "y", "t", "e", "s">>
PassedLine  == <<"[", " ", " ", "P", "A", "S", "S", "E", "D", " ", " ", "]", " ", "5", " ", "t", "e", "s", "t", "s", ".">>

RECURSIVE Repeat(_, _)
Repeat(s, n) == IF n = 0 THEN <<>> ELSE s \o Repeat(s, n - 1)

\* An indicator as written, upper-cased, lower-cased, and three near misses:
\* its last character cut, its first character cut, a character put in its middle.
FragmentsOf(ind) ==
    { ind, upper(ind), lower(ind),
      SubSeq(ind, 1, Len(ind) - 1),
      SubSeq(ind, 2, Len(ind)),
      SubSeq(ind, 1, 3) \o <<"_">> \o SubSeq(ind, 4, Len(ind)) }

ScanFragments ==
    UNION { FragmentsOf(leak_indicators[k]) : k \in 1..Len(leak_indicators) }
        \cup { <<>>, PassedLine }

ScanTexts ==
    { Repeat(NoisePrefix, n) \o f \o s :
        n \in 0..MaxPad, f \in ScanFragments, s \in {<<>>, NoiseSuffix} }

-----------------------------------------------------------------------------
(* Python values the scripts pass around.                                  *)

None      == [none |-> TRUE]        \* Python's None
NotCalled == [notcalled |-> TRUE]   \* the function has not returned yet
NoFile    == [nofile |-> TRUE]      \* the path does not exist

-----------------------------------------------------------------------------
(* The JUnit XML result document.                                          *)
(*                                                                         *)
(* A document is well-formed XML or not; a well-formed one is its root's   *)
(* children (the suite elements) in order.  A numeric attribute is absent, *)
(* text that int()/float() reject ("bad"), or the text of a number.  A     *)
(* case element has any subset of the child elements failure, error and    *)
(* skipped.                                                                *)

Absent == [kind |-> "absent", val |-> 0]
Bad    == [kind |-> "bad", val |-> 0]
Num(n) == [kind |-> "num", val |-> n]

Markers     == {"failure", "error", "skipped"}
CaseNames   == {"CreateMessage"}
FailureText == "assertion X"

PlainCounts == { Num(n) : n \in 0..MaxCount }
PlainTimes  == { Num(1) }
OddAttrs    == { Absent, Bad }

Case(name, time, markers) ==
    [name |-> name, classname |-> "MessageTest", time |-> time, markers |-> markers]

Suite(tests, failures, errors, skipped, time, cases) ==
    [tests |-> tests, failures |-> failures, errors |-> errors,
     skipped |-> skipped, time |-> time, cases |-> cases]

PlainCases == { Case(n, t, m) : n \in CaseNames, t \in PlainTimes, m \in SUBSET Markers }

RECURSIVE SeqsUpTo(_, _)
\* the sequences over S of length at most n
SeqsUpTo(S, n) ==
    IF n = 0 THEN { <<>> }
    ELSE LET shorter == SeqsUpTo(S, n - 1)
         IN  shorter \cup { <<x>> \o t : x \in S, t \in { u \in shorter : Len(u) = n - 1 } }

\* suites whose numeric attributes are all numbers
PlainSuites ==
    { Suite(t, f, e, s, Num(0), cs) :
        t \in PlainCounts, f \in PlainCounts, e \in PlainCounts, s \in PlainCounts,
        cs \in SeqsUpTo(PlainCases, MaxCases) }

\* suites with exactly one absent or malformed numeric attribute
OddSuites ==
    { Suite(a, Num(0), Num(0), Num(0), Num(0), <<>>) : a \in OddAttrs }
    \cup { Suite(Num(1), a, Num(0), Num(0), Num(0), <<>>) : a \in OddAttrs }
    \cup { Suite(Num(1), Num(0), a, Num(0), Num(0), <<>>) : a \in OddAttrs }
    \cup { Suite(Num(1), Num(0), Num(0), a, Num(0), <<>>) : a \in OddAttrs }
    \cup { Suite(Num(1), Num(0), Num(0), Num(0), a, <<>>) : a \in OddAttrs }
    \cup { Suite(Num(1), Num(0), Num(0), Num(0), Num(0),
                 << Case("CreateMessage", a, {}) >>) : a \in OddAttrs }

RECURSIVE SuiteSeqs(_, _)
\* the sequences of n suites of which at most k are odd
SuiteSeqs(n, k) ==
    IF n = 0 THEN { <<>> }
    ELSE { <<s>> \o t : s \in PlainSuites, t \in SuiteSeqs(n - 1, k) }
         \cup (IF k = 0 THEN {}
               ELSE { <<s>> \o t : s \in OddSuites, t \in SuiteSeqs(n - 1, k - 1) })

BadXml == [wellformed |-> FALSE, suites |-> <<>>]
Doc(suites) == [wellformed |-> TRUE, suites |-> suites]

\* a file at a path: its content and which invocation wrote it
File(doc, by) == [doc |-> doc, by |-> by]

-----------------------------------------------------------------------------
(* int(x.get(attr, 0)) and float(x.get(attr, 0))                           *)

\* int() raises ValueError
IntRaises(a) == a.kind = "bad"

\* int(): an absent attribute is the default 0
IntOf(a) == IF a.kind = "num" THEN a.val ELSE 0

\* float() raises ValueError
FloatRaises(a) == a.kind = "bad"

\* float(), in whole seconds
FloatOf(a) == IF a.kind = "num" THEN a.val ELSE 0

RECURSIVE SumSeq(_)
SumSeq(s) == IF s = <<>> THEN 0 ELSE Head(s) + SumSeq(Tail(s))

RECURSIVE Flatten(_)
Flatten(ss) == IF ss = <<>> THEN <<>> ELSE Head(ss) \o Flatten(Tail(ss))

-----------------------------------------------------------------------------
(* XrayTestRunner.parse_test_results                                       *)

\* the test_result dict of one testcase element
runner_test_result(c) ==
    [name      |-> c.name,
     classname |-> c.classname,
     time      |-> FloatOf(c.time),
     status    |-> IF "failure" \in c.markers THEN "failed" ELSE "passed",
     failure   |-> IF "failure" \in c.markers THEN FailureText ELSE "None"]

\* some conversion in the loop over the suites raises; `except Exception` returns None
runner_parse_raises(doc) ==
    \E i \in 1..Len(doc.suites) :
        LET s == doc.suites[i]
        IN  \/ IntRaises(s.tests)
            \/ IntRaises(s.failures)
            \/ IntRaises(s.skipped)
            \/ \E j \in 1..Len(s.cases) : FloatRaises(s.cases[j].time)

\* results["passed"] = results["total"] - results["failed"] - results["skipped"]
runner_passed(total, failed, skipped) == total - failed - skipped

parse_test_results(file) ==
    IF file = None \/ file = NoFile THEN None
    ELSE IF ~file.doc.wellformed THEN None
    ELSE IF runner_parse_raises(file.doc) THEN None
    ELSE LET ss      == file.doc.suites
             total   == SumSeq([i \in 1..Len(ss) |-> IntOf(ss[i].tests)])
             failed  == SumSeq([i \in 1..Len(ss) |-> IntOf(ss[i].failures)])
             skipped == SumSeq([i \in 1..Len(ss) |-> IntOf(ss[i].skipped)])
         IN  [total   |-> total,
              passed  |-> runner_passed(total, failed, skipped),
              failed  |-> failed,
              skipped |-> skipped,
              tests   |-> Flatten([i \in 1..Len(ss) |->
                              [j \in 1..Len(ss[i].cases) |->
                                  runner_test_result(ss[i].cases[j])]])]

-----------------------------------------------------------------------------
(* XrayReportGenerator.parse_junit_xml                                     *)

PyInt(n)  == [type |-> "int", int |-> n, list |-> <<>>]
PyList(l) == [type |-> "list", int |-> 0, list |-> l]

\* the three `if ... is not None` in sequence: a later marker overwrites the status
junit_status(markers) ==
    IF "skipped" \in markers THEN "skipped"
    ELSE IF "error" \in markers THEN "error"
    ELSE IF "failure" \in markers THEN "failed"
    ELSE "passed"

\* the test dict of one testcase element
junit_test(c) ==
    [name      |-> c.name,
     classname |-> c.classname,
     time      |-> FloatOf(c.time),
     status    |-> junit_status(c.markers),
     failure   |-> IF "failure" \in c.markers THEN FailureText ELSE "None",
     error     |-> IF "error" \in c.markers THEN FailureText ELSE "None",
     skipped   |-> IF "skipped" \in c.markers THEN "" ELSE "None"]

\* the suite dict: the literal gives the key "tests" twice, the count at line 52
\* and the list at line 58, and the later one is what the dict holds
junit_suite(s) ==
    [tests    |-> PyList([j \in 1..Len(s.cases) |-> junit_test(s.cases[j])]),
     failures |-> PyInt(IntOf(s.failures)),
     errors   |-> PyInt(IntOf(s.errors)),
     skipped  |-> PyInt(IntOf(s.skipped)),
     time     |-> FloatOf(s.time)]

\* a conversion of a suite's or a case's attribute raises ValueError
junit_convert_raises(doc) ==
    \E i \in 1..Len(doc.suites) :
        LET s == doc.suites[i]
        IN  \/ IntRaises(s.tests)
            \/ IntRaises(s.failures)
            \/ IntRaises(s.errors)
            \/ IntRaises(s.skipped)
            \/ FloatRaises(s.time)
            \/ \E j \in 1..Len(s.cases) : FloatRaises(s.cases[j].time)

\* results["summary"][...] += suite[...] raises TypeError unless both are numbers
junit_summary_raises(doc) ==
    \E i \in 1..Len(doc.suites) :
        LET suite == junit_suite(doc.suites[i])
        IN  \/ suite.tests.type # "int"
            \/ suite.failures.type # "int"
            \/ suite.errors.type # "int"
            \/ suite.skipped.type # "int"

parse_junit_xml(file) ==
    IF file = NoFile THEN None
    ELSE IF ~file.doc.wellformed THEN None
    ELSE IF junit_convert_raises(file.doc) THEN None
    ELSE IF junit_summary_raises(file.doc) THEN None
    ELSE LET ss      == [i \in 1..Len(file.doc.suites) |-> junit_suite(file.doc.suites[i])]
             total   == SumSeq([i \in 1..Len(ss) |-> ss[i].tests.int])
             failed  == SumSeq([i \in 1..Len(ss) |-> ss[i].failures.int])
             errors  == SumSeq([i \in 1..Len(ss) |-> ss[i].errors.int])
             skipped == SumSeq([i \in 1..Len(ss) |-> ss[i].skipped.int])
         IN  [testsuites |-> ss,
              summary |-> [total   |-> total,
                           passed  |-> total - failed - errors - skipped,
                           failed  |-> failed,
                           skipped |-> skipped,
                           errors  |-> errors,
                           time    |-> SumSeq([i \in 1..Len(ss) |-> ss[i].time])]]

-----------------------------------------------------------------------------
(* The documents and outputs one execution (Spec) draws from.              *)

OneCase(markers) == << Case("CreateMessage", Num(1), markers) >>

DocEmpty   == Doc(<<>>)
DocPass    == Doc(<< Suite(Num(1), Num(0), Num(0), Num(0), Num(1), OneCase({})) >>)
DocFail    == Doc(<< Suite(Num(1), Num(1), Num(0), Num(0), Num(1), OneCase({"failure"})) >>)
DocError   == Doc(<< Suite(Num(1), Num(0), Num(1), Num(0), Num(1), OneCase({"error"})) >>)
DocBadAttr == Doc(<< Suite(Bad, Num(0), Num(0), Num(0), Num(1), OneCase({})) >>)

PipelineDocs == { BadXml, DocEmpty, DocPass, DocFail, DocError, DocBadAttr }

\* what an invocation of the test executable leaves at --gtest_output: nothing, or a document
Written == { NoFile } \cup PipelineDocs

\* result.stderr and result.stdout of the test executable
Stderrs == { <<>>, <<"D", "i", "r", "e", "c", "t", " ">> }
Stdouts == { PassedLine, <<"l", "e", "a", "k">> \o NoiseSuffix }

\* the path after an invocation that was asked to write `written` there
Overwrite(old, written, by) == IF written = NoFile THEN old ELSE File(written, by)

\* the two executions of SpecConc
Invocations == {"first", "second"}

NoReports ==
    [test_results          |-> NoFile,
     test_results_valgrind |-> NoFile,
     valgrind_results      |-> "none",
     valgrind_log          |-> "none",
     xray_report           |-> None,
     test_summary          |-> None]

-----------------------------------------------------------------------------
(* XrayTestRunner.run_tests and _run_tests_with_valgrind                   *)

\* A slip: the override is not looked at.
leaks_detected_by_scan_only(output, force) == check_memory_leaks(output)

\* lines 115-119: the scanner's answer, overridden by force_memory_leak_demo
\* (getattr(self, 'force_memory_leak_demo', False): an unset attribute is False)
leaks_detected(output, force) ==
    IF force = "true" THEN TRUE ELSE check_memory_leaks(output)

\* lines 128-137: the clean path returns the copy only when the executable exited 0
clean_returns(returncode, temp) ==
    IF returncode = 0 /\ temp # NoFile THEN temp ELSE None

\* lines 288-297: `import shutil` is inside `if valgrind_xml.exists()`, so the later
\* shutil.copy2 calls raise UnboundLocalError when that file does not exist
copy_raises(xml, log, temp) ==
    xml = "none" /\ (log # "none" \/ temp # NoFile)

\* A slip: the rerun's document is never returned.
valgrind_returns_nothing(temp) == None

\* lines 299-306
valgrind_returns(temp) ==
    IF temp # NoFile THEN temp ELSE None

\* lines 284-304: what the reports directory holds after the copies
copied(reports, xml, log, temp) ==
    [reports EXCEPT
        !.valgrind_results      = IF xml # "none" THEN xml ELSE @,
        !.valgrind_log          = IF log # "none" THEN log ELSE @,
        !.test_results_valgrind = IF temp # NoFile THEN temp ELSE @]

-----------------------------------------------------------------------------
(* XrayTestRunner.generate_xray_report and run                             *)

test_case_mapping(name) ==
    CASE name = "CreateMessage"   -> <<"CHATCPP-TC-001">>
      [] name = "ToString"        -> <<"CHATCPP-TC-002">>
      [] name = "FromString"      -> <<"CHATCPP-TC-003">>
      [] name = "InvalidString"   -> <<"CHATCPP-TC-004">>
      [] name = "TimestampUpdate" -> <<"CHATCPP-TC-005">>
      [] OTHER                    -> <<"CHATCPP-TC-", name>>

\* line 429
memory_analysis(detected) ==
    IF detected THEN "AddressSanitizer + Valgrind" ELSE "AddressSanitizer Clean"

\* the readings of datetime.now() one call of a builder makes, in call order: `calls`
\* instants in whole seconds, none earlier than the one before it
RECURSIVE ClockFrom(_, _)
ClockFrom(first, calls) ==
    IF calls = 0 THEN { <<>> }
    ELSE UNION { { <<t>> \o rest : rest \in ClockFrom(t, calls - 1) } : t \in first..MaxTick }

\* f"{x}" of a float holding a whole number of seconds, as the parts of a string
FloatText(x) == << ToString(x), ".0" >>

\* Python's truth value of test["failure"]: None and "" are false
Truthy(text) == text # "None" /\ text # ""

\* lines 388-393: the comment of one entry, as the parts of the string
runner_comment(test) ==
    <<"Execution time: ">> \o FloatText(test.time) \o <<"s">>
        \o (IF Truthy(test.failure) THEN <<"\nFailure: ", test.failure>> ELSE <<>>)

\* A slip: the comment carries the instant the entry was built at.
runner_entry_stamped(test, k, clock) ==
    [testKey |-> test_case_mapping(test.name),
     start   |-> clock[2 * k + 1],
     finish  |-> clock[2 * k + 2] + test.time,
     comment |-> runner_comment(test) \o <<"at ", ToString(clock[2 * k + 1])>>,
     status  |-> IF test.status = "passed" THEN "PASSED" ELSE "FAILED"]

\* lines 384-390 and 392-393: the entry of the k-th test; each entry reads the clock
\* twice, once for its start and once for its finish
runner_entry(test, k, clock) ==
    [testKey |-> test_case_mapping(test.name),
     start   |-> clock[2 * k + 1],
     finish  |-> clock[2 * k + 2] + test.time,
     comment |-> runner_comment(test),
     status  |-> IF test.status = "passed" THEN "PASSED" ELSE "FAILED"]

\* the number of datetime.now() calls generate_xray_report makes for n tests
runner_clock_calls(n) == 2 + 2 * n

generate_xray_report(results, analysis, clock) ==
    [testExecutionKey |-> [prefix |-> "CHATCPP-TE-", at |-> clock[1]],
     summary          |-> [prefix |-> "Automated Test Execution - ", at |-> clock[2]],
     description      |-> <<"Automated test execution via CI pipeline">>
                              \o (IF analysis # "" THEN <<" | Memory Analysis: ", analysis>>
                                  ELSE <<>>),
     testPlanKey      |-> "CHATCPP-TP-001",
     testEnvironments |-> <<"CI Pipeline">>,
     tests |-> [i \in 1..Len(results.tests) |-> runner_entry(results.tests[i], i, clock)]]

\* A slip: the file is written while the report is still without its entries.
save_xray_report_early(reports, report) ==
    [reports EXCEPT !.xray_report = [report EXCEPT !.tests = <<>>]]

\* lines 399-408: json.dump of the finished report into xray_report_<timestamp>.json
save_xray_report(reports, report) ==
    [reports EXCEPT !.xray_report = report]

\* A slip: a failed build does not stop the pipeline.
build_aborts_never(ok) == FALSE

\* lines 415-416: if not self.build_project(): sys.exit(1)
build_aborts(ok) == ~ok

\* lines 448, 456-458: sys.exit(0 if success else 1)
run_exit(results) ==
    IF results.failed = 0 THEN "success" ELSE "failure"

-----------------------------------------------------------------------------
(* XrayReportGenerator.generate_xray_json_report and main                  *)

\* A dict is the set of its items; dict.get(key, default)
PyGet(dict, key, default) ==
    IF \E item \in dict : item.key = key
    THEN (CHOOSE item \in dict : item.key = key).value
    ELSE default

Item(key, value) == [key |-> key, value |-> value]

\* the characters of a status
Chars(status) ==
    CASE status = "passed"  -> <<"p", "a", "s", "s", "e", "d">>
      [] status = "failed"  -> <<"f", "a", "i", "l", "e", "d">>
      [] status = "error"   -> <<"e", "r", "r", "o", "r">>
      [] status = "skipped" -> <<"s", "k", "i", "p", "p", "e", "d">>
      [] status = "blocked" -> <<"b", "l", "o", "c", "k", "e", "d">>

\* lines 177-178:
\*   status_mapping = self.config.get("xray", {}).get("testStatuses", {})
\*   return status_mapping.get(status, status.upper())
map_status_to_xray(config, status) ==
    LET status_mapping == PyGet(PyGet(config, "xray", {}), "testStatuses", {})
    IN  PyGet(status_mapping, status, upper(Chars(status)))

\* A slip: the name is looked up in an empty table.
map_test_to_xray_key_unmapped(config, test_name) == <<"CHATCPP-TC-", test_name>>

\* lines 124-125:
\*   mapping = self.config.get("integration", {}).get("testCaseMapping", {})
\*                        .get("automationMapping", {})
\*   return mapping.get(test_name, f"CHATCPP-TC-{test_name}")
map_test_to_xray_key(config, test_name) ==
    LET mapping == PyGet(PyGet(PyGet(config, "integration", {}),
                               "testCaseMapping", {}),
                         "automationMapping", {})
    IN  PyGet(mapping, test_name, <<"CHATCPP-TC-", test_name>>)

\* lines 154-168: the comment of one entry, as the parts of the string; the failure
\* and error dicts are never empty, and their content and message are the same text
junit_comment(test) ==
    <<"Execution time: ">> \o FloatText(test.time) \o <<"s", "\nClass: ", test.classname>>
        \o (IF test.status = "failed" /\ test.failure # "None"
            THEN <<"\n\nFAILURE:\n", test.failure>>
                     \o (IF Truthy(test.failure) THEN <<"\nMessage: ", test.failure>> ELSE <<>>)
            ELSE <<>>)
        \o (IF test.status = "error" /\ test.error # "None"
            THEN <<"\n\nERROR:\n", test.error>>
                     \o (IF Truthy(test.error) THEN <<"\nMessage: ", test.error>> ELSE <<>>)
            ELSE <<>>)

\* the tests of all suites in order, as the two nested loops of lines 146-147 visit them
junit_tests(junit) ==
    Flatten([i \in 1..Len(junit.testsuites) |-> junit.testsuites[i].tests.list])

\* A slip: every entry starts at the run-start instant.
junit_start_at_now(tests, k, now) == now

\* lines 144, 152, 171: test_start_time when the k-th test is reached
junit_start(tests, k, now) ==
    now + SumSeq([i \in 1..(k - 1) |-> tests[i].time])

\* lines 150-168
junit_entry(config, tests, k, now) ==
    [testKey |-> map_test_to_xray_key(config, tests[k].name),
     start   |-> junit_start(tests, k, now),
     finish  |-> junit_start(tests, k, now) + tests[k].time,
     comment |-> junit_comment(tests[k]),
     status  |-> map_status_to_xray(config, tests[k].status)]

\* lines 127-173, called as main does with the defaults of --test-plan and --environment
generate_xray_json_report(junit, config, now) ==
    [testExecutionKey |-> [prefix |-> "CHATCPP-TE-", at |-> now],
     summary          |-> [prefix |-> "Automated Test Execution - ", at |-> now],
     description      |-> <<"Automated test execution via CI/CD pipeline">>,
     startDate        |-> now,
     finishDate       |-> now + junit.summary.time,
     testPlanKey      |-> "CHATCPP-TP-001",
     testEnvironments |-> <<"CI Pipeline">>,
     tests |-> [k \in 1..Len(junit_tests(junit)) |->
                  junit_entry(config, junit_tests(junit), k, now)]]

\* what load_config returns: {} when the file is missing or is not JSON, else the
\* file's object, which may lack any of the keys or hold empty tables
StatusTable ==
    { Item("passed", <<"P", "A", "S", "S">>), Item("error", <<"F", "A", "I", "L", "E", "D">>) }
KeyTable == { Item("ToString", <<"CHATCPP-TC-002">>) }

ConfigOf(statuses, mapping) ==
    { Item("xray", { Item("testStatuses", statuses) }),
      Item("integration",
           { Item("testCaseMapping", { Item("automationMapping", mapping) }) }) }

Configs ==
    { {},
      { Item("integration", {}) },
      { Item("integration", { Item("testCaseMapping", {}) }) },
      ConfigOf({}, {}),
      ConfigOf({}, KeyTable),
      ConfigOf(StatusTable, KeyTable) }

\* lines 186-198 and 200-243, as main calls them at lines 279-284: the report goes to
\* xray_report_<timestamp>.json, the summary to test_summary_<timestamp>.md
save_report(reports, report, junit) ==
    [reports EXCEPT !.xray_report = report, !.test_summary = junit.summary]

\* line 291: return 0 if summary['failed'] == 0 and summary['errors'] == 0 else 1
main_exit(junit) ==
    IF junit.summary.failed = 0 /\ junit.summary.errors = 0 THEN "success" ELSE "failure"

-----------------------------------------------------------------------------
(* Spec: one execution of run_tests_xray.py or of generate_xray_report.py  *)

IdleScan  == scan_text = <<>> /\ scan_result = FALSE /\ scan_calls = 0
IdleParse == parse_doc = NoFile /\ runner_parsed = NotCalled /\ junit_parsed = NotCalled
IdleBuild ==
    /\ builder = "none" /\ build_doc = Doc(<<>>) /\ build_config = {}
    /\ build_detected = FALSE /\ build_now = 0 /\ built = <<>> /\ mapped = NotCalled
IdleConc  ==
    /\ wall = 0 /\ directory = {}
    /\ inv = [p \in Invocations |-> [todo |-> <<>>, wrote |-> {}]]

NotRun == [ran |-> FALSE, returncode |-> 0, wrote |-> FALSE, output |-> <<>>]

InitRun ==
    /\ build_result = "none"
    /\ force_memory_leak_demo = "unset"
    /\ memory_leaks_detected = FALSE     \* __init__, line 24
    /\ light = NotRun
    /\ heavy = "none"
    /\ results_file = NotCalled
    /\ test_results = NotCalled
    /\ xray_report = None
    /\ exit_status = "running"
    /\ aborted = "none"
    /\ history = <<>>
    /\ reports_dir = NoReports

Init ==
    /\ IdleScan
    /\ IdleParse
    /\ IdleBuild
    /\ IdleConc
    /\ InitRun
    /\ \/ /\ prog = "runner"
          /\ pc = "build"
          /\ env_demo \in BOOLEAN
          /\ valgrind_installed \in BOOLEAN
          /\ exe \in {"missing", "unrunnable", "ok"}
          /\ input_xml = NoFile
          \* what an earlier execution left in the build directory
          /\ temp_results_file \in {NoFile, File(DocPass, "stale")}
          /\ valgrind_xml \in {"none", "stale"}
          /\ valgrind_log \in {"none", "stale"}
       \/ /\ prog = "generator"
          /\ pc = "gen_parse"
          /\ env_demo = FALSE
          /\ valgrind_installed = FALSE
          /\ exe = "missing"
          /\ input_xml \in {NoFile} \cup { File(d, "input") : d \in PipelineDocs }
          /\ temp_results_file = NoFile
          /\ valgrind_xml = "none"
          /\ valgrind_log = "none"

\* sys.exit(1) from run(), return 1 from main(), or an uncaught exception
Abort(stage) ==
    /\ pc' = "done"
    /\ exit_status' = "failure"
    /\ aborted' = stage

\* run(), lines 414-416, with build_project, lines 29-78
BuildProject ==
    /\ prog = "runner" /\ pc = "build"
    /\ force_memory_leak_demo' = IF env_demo THEN "true" ELSE "false"
    /\ history' = Append(history, "build")
    /\ \E ok \in BOOLEAN :
          /\ build_result' = IF ok THEN "ok" ELSE "failed"
          /\ IF build_aborts(ok)
             THEN Abort("build")
             ELSE pc' = "run_tests" /\ UNCHANGED <<exit_status, aborted>>
    /\ UNCHANGED <<scanVars, parseVars, buildVars, concVars, envVars, fileVars, memory_leaks_detected,
                   light, heavy, results_file, test_results, xray_report>>

\* run_tests, lines 85-90, and run(), lines 419-421: no executable, no invocation
RunTestsNoExecutable ==
    /\ prog = "runner" /\ pc = "run_tests"
    /\ exe = "missing"
    /\ results_file' = None
    /\ history' = Append(history, "run_tests")
    /\ Abort("run")
    /\ UNCHANGED <<scanVars, parseVars, buildVars, concVars, envVars, fileVars, build_result, force_memory_leak_demo,
                   memory_leaks_detected, light, heavy, test_results, xray_report>>

\* run_tests, lines 100-108: subprocess.run raises (the file cannot be executed)
\* and nothing catches it
RunTestsNotRunnable ==
    /\ prog = "runner" /\ pc = "run_tests"
    /\ exe = "unrunnable"
    /\ history' = Append(history, "run_tests")
    /\ Abort("crash")
    /\ UNCHANGED <<scanVars, parseVars, buildVars, concVars, envVars, fileVars, build_result, force_memory_leak_demo,
                   memory_leaks_detected, light, heavy, results_file, test_results,
                   xray_report>>

\* run_tests, lines 92-120: the AddressSanitizer invocation and the scan of its output
RunLightweight ==
    /\ prog = "runner" /\ pc = "run_tests"
    /\ exe = "ok"
    /\ \E rc \in {0, 1}, written \in Written, err \in Stderrs, out \in Stdouts :
          /\ temp_results_file' = Overwrite(temp_results_file, written, "light")
          /\ light' = [ran |-> TRUE, returncode |-> rc, wrote |-> written # NoFile,
                       output |-> err \o out]
          /\ memory_leaks_detected' = leaks_detected(err \o out, force_memory_leak_demo)
    /\ history' = Append(history, "run_tests") \o <<"lightweight">>
    /\ pc' = "lightweight_done"
    /\ UNCHANGED <<scanVars, parseVars, buildVars, concVars, envVars, valgrind_xml, valgrind_log, reports_dir,
                   build_result, force_memory_leak_demo, heavy, results_file, test_results,
                   xray_report, exit_status, aborted>>

\* run_tests, lines 125-137, and run(), lines 420-421
AcceptClean ==
    /\ prog = "runner" /\ pc = "lightweight_done"
    /\ ~memory_leaks_detected
    /\ LET ret == clean_returns(light.returncode, temp_results_file)
       IN  /\ results_file' = ret
           /\ IF ret = None
              THEN Abort("run") /\ UNCHANGED reports_dir
              ELSE /\ reports_dir' = [reports_dir EXCEPT !.test_results = ret]
                   /\ pc' = "parse"
                   /\ UNCHANGED <<exit_status, aborted>>
    /\ UNCHANGED <<scanVars, parseVars, buildVars, concVars, envVars, temp_results_file, valgrind_xml,
                   valgrind_log, build_result, force_memory_leak_demo, memory_leaks_detected, light,
                   heavy, test_results, xray_report, history>>

\* _run_tests_with_valgrind, lines 284-306, and run(), lines 420-421, given the
\* files the rerun left in the build directory
CopyAndReturn(xml, log, temp) ==
    IF copy_raises(xml, log, temp)
    THEN /\ Abort("crash")
         /\ UNCHANGED <<reports_dir, results_file>>
    ELSE /\ reports_dir' = copied(reports_dir, xml, log, temp)
         /\ results_file' = valgrind_returns(temp)
         /\ IF valgrind_returns(temp) = None
            THEN Abort("run")
            ELSE pc' = "parse" /\ UNCHANGED <<exit_status, aborted>>

\* run_tests, lines 122-124, and _run_tests_with_valgrind, lines 161-191: Valgrind runs
\* the executable; each of its two files and the result document is written or not
EscalateValgrind ==
    /\ prog = "runner" /\ pc = "lightweight_done"
    /\ memory_leaks_detected
    /\ valgrind_installed
    /\ heavy' = "valgrind"
    /\ history' = Append(history, "heavyweight")
    /\ \E wx \in BOOLEAN, wl \in BOOLEAN, written \in Written :
          /\ valgrind_xml' = IF wx THEN "valgrind" ELSE valgrind_xml
          /\ valgrind_log' = IF wl THEN "valgrind" ELSE valgrind_log
          /\ temp_results_file' = Overwrite(temp_results_file, written, "heavy")
          /\ CopyAndReturn(valgrind_xml', valgrind_log', temp_results_file')
    /\ UNCHANGED <<scanVars, parseVars, buildVars, concVars, envVars, build_result, force_memory_leak_demo,
                   memory_leaks_detected, light, test_results, xray_report>>

\* run_tests, lines 122-124, and _run_tests_with_valgrind, lines 192-282: the
\* executable is run again and the two Valgrind files are written from fixed text
EscalateSimulated ==
    /\ prog = "runner" /\ pc = "lightweight_done"
    /\ memory_leaks_detected
    /\ ~valgrind_installed
    /\ heavy' = "simulated"
    /\ history' = Append(history, "heavyweight")
    /\ \E written \in Written :
          /\ valgrind_xml' = "simulated"
          /\ valgrind_log' = "simulated"
          /\ temp_results_file' = Overwrite(temp_results_file, written, "heavy")
          /\ CopyAndReturn(valgrind_xml', valgrind_log', temp_results_file')
    /\ UNCHANGED <<scanVars, parseVars, buildVars, concVars, envVars, build_result, force_memory_leak_demo,
                   memory_leaks_detected, light, test_results, xray_report>>

\* run(), lines 423-426
ParseResults ==
    /\ prog = "runner" /\ pc = "parse"
    /\ test_results' = parse_test_results(results_file)
    /\ history' = Append(history, "parse")
    /\ IF parse_test_results(results_file) = None
       THEN Abort("parse")
       ELSE pc' = "generate" /\ UNCHANGED <<exit_status, aborted>>
    /\ UNCHANGED <<scanVars, parseVars, buildVars, concVars, envVars, fileVars, build_result, force_memory_leak_demo,
                   memory_leaks_detected, light, heavy, results_file, xray_report>>

\* run(), lines 428-432
GenerateReport ==
    /\ prog = "runner" /\ pc = "generate"
    /\ \E clock \in ClockFrom(0, runner_clock_calls(Len(test_results.tests))) :
          xray_report' = generate_xray_report(test_results,
                                              memory_analysis(memory_leaks_detected),
                                              clock)
    /\ history' = Append(history, "report")
    /\ pc' = "save"
    /\ UNCHANGED <<scanVars, parseVars, buildVars, concVars, envVars, fileVars, build_result, force_memory_leak_demo,
                   memory_leaks_detected, light, heavy, results_file, test_results,
                   exit_status, aborted>>

\* run(), lines 433-448, with save_xray_report, lines 399-408, and lines 456-458
SaveReport ==
    /\ prog = "runner" /\ pc = "save"
    /\ reports_dir' = save_xray_report(reports_dir, xray_report)
    /\ history' = Append(history, "save")
    /\ exit_status' = run_exit(test_results)
    /\ pc' = "done"
    /\ UNCHANGED <<scanVars, parseVars, buildVars, concVars, envVars, temp_results_file, valgrind_xml,
                   valgrind_log, build_result, force_memory_leak_demo, memory_leaks_detected, light,
                   heavy, results_file, test_results, xray_report, aborted>>

\* main(), lines 259-264
GenParse ==
    /\ prog = "generator" /\ pc = "gen_parse"
    /\ test_results' = parse_junit_xml(input_xml)
    /\ history' = Append(history, "parse")
    /\ IF parse_junit_xml(input_xml) = None
       THEN Abort("parse")
       ELSE pc' = "gen_report" /\ UNCHANGED <<exit_status, aborted>>
    /\ UNCHANGED <<scanVars, parseVars, buildVars, concVars, envVars, fileVars, build_result, force_memory_leak_demo,
                   memory_leaks_detected, light, heavy, results_file, xray_report>>

\* main(), lines 266-277
GenReport ==
    /\ prog = "generator" /\ pc = "gen_report"
    /\ \E config \in Configs, now \in 0..MaxTick :
          xray_report' = generate_xray_json_report(test_results, config, now)
    /\ history' = Append(history, "report")
    /\ pc' = "gen_save"
    /\ UNCHANGED <<scanVars, parseVars, buildVars, concVars, envVars, fileVars, build_result, force_memory_leak_demo,
                   memory_leaks_detected, light, heavy, results_file, test_results,
                   exit_status, aborted>>

\* main(), lines 279-291, with save_report and generate_summary_report
GenSave ==
    /\ prog = "generator" /\ pc = "gen_save"
    /\ reports_dir' = save_report(reports_dir, xray_report, test_results)
    /\ history' = Append(history, "save")
    /\ exit_status' = main_exit(test_results)
    /\ pc' = "done"
    /\ UNCHANGED <<scanVars, parseVars, buildVars, concVars, envVars, temp_results_file, valgrind_xml,
                   valgrind_log, build_result, force_memory_leak_demo, memory_leaks_detected, light,
                   heavy, results_file, test_results, xray_report, aborted>>

Next ==
    \/ BuildProject
    \/ RunTestsNoExecutable
    \/ RunTestsNotRunnable
    \/ RunLightweight
    \/ AcceptClean
    \/ EscalateValgrind
    \/ EscalateSimulated
    \/ ParseResults
    \/ GenerateReport
    \/ SaveReport
    \/ GenParse
    \/ GenReport
    \/ GenSave

Spec == Init /\ [][Next]_vars

-----------------------------------------------------------------------------
(* SpecParse: both parsers applied to one input, which is a missing file,  *)
(* a file that is not well-formed XML, or a document of at most MaxSuites  *)
(* suites of which at most MaxOdd have an absent or malformed attribute.   *)

IdlePipe ==
    /\ InitRun
    /\ prog = "none" /\ pc = "done"
    /\ env_demo = FALSE /\ valgrind_installed = FALSE /\ exe = "missing"
    /\ input_xml = NoFile /\ temp_results_file = NoFile
    /\ valgrind_xml = "none" /\ valgrind_log = "none"

InitParse ==
    /\ IdleScan
    /\ IdlePipe
    /\ IdleBuild
    /\ IdleConc
    /\ runner_parsed = NotCalled
    /\ junit_parsed = NotCalled
    /\ \/ parse_doc = NoFile
       \/ parse_doc = File(BadXml, "input")
       \/ \E n \in 0..MaxSuites : \E ss \in SuiteSeqs(n, MaxOdd) :
             parse_doc = File(Doc(ss), "input")

\* test_results = self.parse_test_results(results_file)
ParseRunner ==
    /\ runner_parsed = NotCalled
    /\ runner_parsed' = parse_test_results(parse_doc)
    /\ UNCHANGED <<scanVars, buildVars, concVars, pipeVars, parse_doc, junit_parsed>>

\* junit_results = generator.parse_junit_xml(args.input_xml)
ParseJunit ==
    /\ junit_parsed = NotCalled
    /\ junit_parsed' = parse_junit_xml(parse_doc)
    /\ UNCHANGED <<scanVars, buildVars, concVars, pipeVars, parse_doc, runner_parsed>>

NextParse == ParseRunner \/ ParseJunit

SpecParse == InitParse /\ [][NextParse]_vars

-----------------------------------------------------------------------------
(* SpecScan: _check_memory_leaks called up to MaxCalls times, each time on *)
(* any of the texts.                                                       *)

InitScan ==
    /\ IdleScan
    /\ IdleParse
    /\ IdlePipe
    /\ IdleBuild
    /\ IdleConc

\* self._check_memory_leaks(output)
Scan ==
    /\ scan_calls < MaxCalls
    /\ \E t \in ScanTexts :
          /\ scan_text' = t
          /\ scan_result' = check_memory_leaks(t)
    /\ scan_calls' = scan_calls + 1
    /\ UNCHANGED <<parseVars, pipeVars, buildVars, concVars>>

NextScan == Scan

SpecScan == InitScan /\ [][NextScan]_vars

-----------------------------------------------------------------------------
(* SpecBuild: a report builder called up to MaxBuilds times on one parsed  *)
(* run, or map_status_to_xray called once.  The run comes from a document  *)
(* of up to two suites; the runner's builder gets what parse_test_results  *)
(* returns for it, the generator's builder gets a results dict of the      *)
(* shape parse_junit_xml builds for it.                                    *)

BuildNames   == { "ToString", "SendMessage" }
BuildTimes   == { Num(1), Num(2) }
BuildMarkers == { {}, {"failure"}, {"error"}, {"skipped"} }
BuildCases   == { Case(n, t, m) : n \in BuildNames, t \in BuildTimes, m \in BuildMarkers }

\* a suite holding the cases cs
BuildSuite(cs) == Suite(Num(Len(cs)), Num(0), Num(0), Num(0), Num(0), cs)

\* no suite; one or two suites of at most one case; one suite of two cases
BuildDocs ==
    { Doc(ss) : ss \in SeqsUpTo({ BuildSuite(cs) : cs \in SeqsUpTo(BuildCases, 1) }, 2) }
        \cup { Doc(<< BuildSuite(<<c, d>>) >>) : c \in BuildCases, d \in BuildCases }

\* lines 37-100: the results dict for the suites of a document
JunitResults(doc) ==
    [testsuites |-> [i \in 1..Len(doc.suites) |-> junit_suite(doc.suites[i])],
     summary    |-> [time |-> SumSeq([i \in 1..Len(doc.suites) |->
                                         FloatOf(doc.suites[i].time)])]]

\* the statuses map_status_to_xray is called with: the four parse_junit_xml gives a
\* case, and one it never gives
Statuses == { "passed", "failed", "error", "skipped", "blocked" }

InitBuild ==
    /\ IdleScan
    /\ IdleParse
    /\ IdlePipe
    /\ IdleConc
    /\ build_doc \in BuildDocs
    /\ build_now = 0
    /\ built = <<>>
    /\ mapped = NotCalled
    /\ \/ builder = "runner" /\ build_config = {} /\ build_detected \in BOOLEAN
       \/ builder = "generator" /\ build_config \in Configs /\ build_detected = FALSE

\* xray_report = self.generate_xray_report(test_results, memory_analysis=memory_analysis)
BuildRunner ==
    /\ builder = "runner"
    /\ Len(built) < MaxBuilds
    /\ LET results == parse_test_results(File(build_doc, "input"))
       IN  \E clock \in ClockFrom(build_now, runner_clock_calls(Len(results.tests))) :
              /\ built' = Append(built, generate_xray_report(results,
                                            memory_analysis(build_detected), clock))
              /\ build_now' = clock[Len(clock)]
    /\ UNCHANGED <<scanVars, parseVars, pipeVars, concVars,
                   builder, build_doc, build_config, build_detected, mapped>>

\* xray_report = generator.generate_xray_json_report(junit_results, ...)
BuildJunit ==
    /\ builder = "generator"
    /\ mapped = NotCalled
    /\ Len(built) < MaxBuilds
    /\ \E now \in build_now..MaxTick :
          /\ built' = Append(built, generate_xray_json_report(JunitResults(build_doc),
                                                              build_config, now))
          /\ build_now' = now
    /\ UNCHANGED <<scanVars, parseVars, pipeVars, concVars,
                   builder, build_doc, build_config, build_detected, mapped>>

\* generator.map_status_to_xray(status)
MapStatus ==
    /\ builder = "generator"
    /\ mapped = NotCalled
    /\ built = <<>>
    /\ \E status \in Statuses :
          mapped' = [status |-> status, xray |-> map_status_to_xray(build_config, status)]
    /\ UNCHANGED <<scanVars, parseVars, pipeVars, concVars,
                   builder, build_doc, build_config, build_detected, build_now, built>>

NextBuild == BuildRunner \/ BuildJunit \/ MapStatus

SpecBuild == InitBuild /\ [][NextBuild]_vars

-----------------------------------------------------------------------------
(* SpecConc: two executions of run_tests_xray.py that share the reports    *)
(* directory.  Each writes its files there in the order of run_tests,      *)
(* _run_tests_with_valgrind and save_xray_report; the clock ticks between  *)
(* any two steps.                                                          *)

\* datetime.now().strftime('%Y%m%d_%H%M%S'): the instant cut to the whole second
strftime(instant) == instant \div TicksPerSecond

\* f"test_results_{...}.xml" and the like: the kind of file and the timestamp
FileName(kind, instant) == [kind |-> kind, stamp |-> strftime(instant)]

\* the files an execution on the clean path writes (lines 130, 402), and one that
\* escalates (lines 289, 295, 301, 402)
CleanWrites     == <<"test_results", "xray_report">>
EscalatedWrites == <<"valgrind_results", "valgrind_log", "test_results_valgrind",
                     "xray_report">>

\* shutil.copy2 and open(..., 'w'): a file of that name is replaced
written(dir, name, by) ==
    { f \in dir : f.name # name } \cup { [name |-> name, by |-> by] }

InitConc ==
    /\ IdleScan
    /\ IdleParse
    /\ IdlePipe
    /\ IdleBuild
    /\ wall = 0
    /\ directory = {}
    /\ inv \in [Invocations -> { [todo |-> w, wrote |-> {}] :
                                    w \in {CleanWrites, EscalatedWrites} }]

\* time passes
Tick ==
    /\ wall < MaxWall
    /\ wall' = wall + 1
    /\ UNCHANGED <<scanVars, parseVars, pipeVars, buildVars, directory, inv>>

\* an execution writes its next file under the name the clock gives it now
WriteArtifact(p) ==
    /\ inv[p].todo # <<>>
    /\ LET name == FileName(Head(inv[p].todo), wall)
       IN  /\ directory' = written(directory, name, p)
           /\ inv' = [inv EXCEPT ![p] = [todo  |-> Tail(inv[p].todo),
                                         wrote |-> inv[p].wrote \cup {name}]]
    /\ UNCHANGED <<scanVars, parseVars, pipeVars, buildVars, wall>>

NextConc == Tick \/ \E p \in Invocations : WriteArtifact(p)

SpecConc == InitConc /\ [][NextConc]_vars

-----------------------------------------------------------------------------
(* Properties of one execution (Spec).                                     *)

Returned(v) == v # NotCalled /\ v # None

\* the path holds a well-formed document
WellFormed(file) == file # NoFile /\ file.doc.wellformed

\* run_tests has returned a path, or the script ended
RunStageOver == pc \in {"parse", "generate", "save", "done"}

\* the errors a document records for its suites (the attribute parse_junit_xml sums)
errored_in(doc) == SumSeq([i \in 1..Len(doc.suites) |-> IntOf(doc.suites[i].errors)])

\* suspicion: the scanner's answer on the lightweight output, or the forced override
Suspicion == check_memory_leaks(light.output) \/ force_memory_leak_demo = "true"

\* the execution report is in the reports directory
ReportWritten == reports_dir.xray_report # None

\* C1: the run stage reports a run failure (run_tests returns no result document and
\* the pipeline aborts) only when the test executable cannot be located or invoked;
\* a non-zero exit code with a result document produced never causes a run failure,
\* and the pipeline goes on to parsing.  (An invocation that leaves no well-formed
\* document has nothing to report; that case is not held against the claim.)
C1_RunFailureOnlyWhenNotInvocable ==
    /\ aborted = "run" => (exe # "ok" \/ ~WellFormed(temp_results_file))
    /\ (RunStageOver /\ light.ran /\ light.returncode # 0 /\ light.wrote
           /\ WellFormed(temp_results_file) /\ aborted # "crash")
          => Returned(results_file)

\* C2: an execution that reaches report generation exits with success iff the parsed
\* run has no failed and no errored case, and its report has been written whatever
\* the exit status; every abort at the build, run or parse stage exits non-zero.
C2_ExitSuccessIffNoFailedNoErrored ==
    /\ (pc = "done" /\ aborted = "none" /\ prog = "runner") =>
          /\ ReportWritten
          /\ exit_status = "success" <=>
                (test_results.failed = 0 /\ errored_in(results_file.doc) = 0)
    /\ (pc = "done" /\ aborted = "none" /\ prog = "generator") =>
          /\ ReportWritten
          /\ exit_status = "success" <=>
                (test_results.summary.failed = 0 /\ test_results.summary.errors = 0)
    /\ aborted # "none" => exit_status = "failure"

\* C3, as claimed: whenever escalation is triggered and Valgrind is not installed, the
\* simulated document and log are produced and the finished pipeline has parsed the
\* results and written an execution report.
C3_SimulatedAlwaysReports ==
    (pc = "done" /\ heavy = "simulated") =>
        /\ valgrind_xml = "simulated" /\ valgrind_log = "simulated"
        /\ Returned(test_results)
        /\ ReportWritten

\* C3, amended: whenever escalation is triggered and Valgrind is not installed, the
\* run stage produces the simulated document and log and copies both to the reports
\* directory, never raises, and returns the result document exactly when one is at
\* the temporary path after the rerun; the pipeline then always runs to its end, and
\* has written an execution report exactly when parse_test_results accepts that
\* document.
C3_SimulatedReportsWhenDocumentParses ==
    heavy = "simulated" =>
        /\ valgrind_xml = "simulated" /\ valgrind_log = "simulated"
        /\ reports_dir.valgrind_results = "simulated"
        /\ reports_dir.valgrind_log = "simulated"
        /\ aborted # "crash"
        /\ Returned(results_file) <=> temp_results_file # NoFile
        /\ Returned(results_file) => results_file = temp_results_file
        /\ pc # "done" => ENABLED Next
        /\ pc = "done" =>
              (ReportWritten <=> /\ temp_results_file # NoFile
                                 /\ parse_test_results(temp_results_file) # None)

\* C3 witness: a simulated escalation whose pipeline ended with its report written
C3_Witness ==
    /\ pc = "done" /\ heavy = "simulated" /\ ~valgrind_installed
    /\ reports_dir.valgrind_results = "simulated"
    /\ ReportWritten

Count(seq, x) == Cardinality({ i \in 1..Len(seq) : seq[i] = x })

\* C4: NotRun -> LightweightDone -> {Accepted | EscalatingHeavyweight} -> Resolved:
\* the lightweight invocation happens once and before any heavyweight step; the
\* heavyweight step is taken iff suspicion was raised; with no suspicion the outcome
\* is clean, no heavyweight artifact is produced, and the (well-formed) result
\* document of the lightweight run is the one returned.
C4_DiagnosticStateMachine ==
    /\ Count(history, "lightweight") <= 1
    /\ heavy # "none" => (light.ran /\ Count(history, "lightweight") = 1)
    /\ (RunStageOver /\ light.ran) => (heavy # "none" <=> Suspicion)
    /\ (RunStageOver /\ light.ran /\ ~Suspicion) =>
          /\ ~memory_leaks_detected
          /\ valgrind_xml \in {"none", "stale"} /\ valgrind_log \in {"none", "stale"}
          /\ reports_dir.valgrind_results = "none" /\ reports_dir.valgrind_log = "none"
          /\ reports_dir.test_results_valgrind = NoFile
          /\ (light.wrote /\ WellFormed(temp_results_file)) =>
                            /\ Returned(results_file)
                            /\ results_file = temp_results_file
                            /\ results_file.by = "light"

StageRank(stage) ==
    CASE stage = "build"       -> 1
      [] stage = "run_tests"   -> 2
      [] stage = "lightweight" -> 3
      [] stage = "heavyweight" -> 4
      [] stage = "parse"       -> 5
      [] stage = "report"      -> 6
      [] stage = "save"        -> 7

\* C5: the stages run in the order Build -> Run-with-detection -> Parse -> Report and
\* short-circuit: after a failed build the test executable is never invoked; after a
\* failed run stage nothing is parsed; after a failed parse no report is built or
\* written.
C5_StagesInOrderAndShortCircuit ==
    /\ \A i \in 1..Len(history), j \in 1..Len(history) :
          i < j => StageRank(history[i]) < StageRank(history[j])
    /\ build_result = "failed" =>
          /\ ~light.ran /\ heavy = "none"
          /\ Count(history, "run_tests") = 0
          /\ results_file = NotCalled
    /\ (prog = "runner" /\ ~Returned(results_file)) =>
          /\ test_results = NotCalled
          /\ Count(history, "parse") = 0
    /\ ~Returned(test_results) =>
          /\ xray_report = None
          /\ ~ReportWritten
          /\ Count(history, "report") = 0 /\ Count(history, "save") = 0
    /\ ReportWritten => xray_report # None
    /\ (prog = "runner" /\ Count(history, "run_tests") > 0) => build_result = "ok"

\* C5 witness: each short circuit happened, or the whole order was run
C5_Witness ==
    /\ pc = "done"
    /\ \/ history = <<"build", "run_tests", "lightweight", "heavyweight",
                      "parse", "report", "save">>
       \/ build_result = "failed"

\* the text is one of the parts of a comment
Mentions(comment, text) == \E i \in 1..Len(comment) : comment[i] = text

\* C11: a run in which a case fails with a failure message, with no leak signature in
\* the detector output, still writes an execution report; the report counts the
\* failure (failed = 1), the exit status is non-zero, and the comment of the failing
\* case's entry contains the failure message.
C11_FailingRunStillReports ==
    (/\ prog = "runner" /\ pc = "done" /\ aborted # "crash"
     /\ light.ran /\ ~check_memory_leaks(light.output)
     /\ temp_results_file # NoFile /\ temp_results_file.doc = DocFail)
        => /\ ReportWritten
           /\ test_results.failed = 1
           /\ exit_status = "failure"
           /\ \E k \in 1..Len(test_results.tests) :
                 /\ test_results.tests[k].status = "failed"
                 /\ reports_dir.xray_report.tests[k].status = "FAILED"
                 /\ Mentions(reports_dir.xray_report.tests[k].comment, FailureText)

\* C12: when escalation happened and no real Valgrind ran, the description of the
\* execution report notes the simulated analysis: the analysis it names is not the
\* one the report of a real Valgrind analysis names.
C12_SimulatedAnalysisIsNoted ==
    (heavy = "simulated" /\ ReportWritten) =>
        ~Mentions(reports_dir.xray_report.description, memory_analysis(TRUE))

\* the files of the build directory and of the reports directory, by name
Artifacts ==
    [temp_results_file     |-> temp_results_file # NoFile,
     valgrind_xml          |-> valgrind_xml # "none",
     valgrind_log          |-> valgrind_log # "none",
     test_results          |-> reports_dir.test_results # NoFile,
     test_results_valgrind |-> reports_dir.test_results_valgrind # NoFile,
     valgrind_results      |-> reports_dir.valgrind_results # "none",
     valgrind_log_copy     |-> reports_dir.valgrind_log # "none",
     xray_report           |-> reports_dir.xray_report # None,
     test_summary          |-> reports_dir.test_summary # None]

\* C13: the execution report is written only after it has been built in full and is
\* written once: the file holds exactly the report built in memory, with all its
\* entries, and never changes afterwards; on every abort path no execution report
\* (and no summary) exists, whole or partial; and no step removes or empties a file
\* written before it, so what was produced before an abort is still there.
C13_ReportWrittenWholeAndOnce ==
    /\ [](ReportWritten =>
            /\ xray_report # None
            /\ reports_dir.xray_report = xray_report
            /\ Len(reports_dir.xray_report.tests) =
                  (IF prog = "runner" THEN Len(test_results.tests)
                   ELSE Len(junit_tests(test_results)))
            /\ Count(history, "save") = 1)
    /\ [](aborted # "none" =>
            /\ ~ReportWritten
            /\ reports_dir.test_summary = None
            /\ light.wrote => temp_results_file # NoFile
            /\ heavy = "simulated" => (valgrind_xml = "simulated" /\ valgrind_log = "simulated"))
    /\ [][/\ \A name \in DOMAIN Artifacts : Artifacts[name] => Artifacts'[name]
          /\ \A slot \in {"test_results", "test_results_valgrind"} :
                reports_dir[slot] # NoFile => reports_dir'[slot] = reports_dir[slot]
          /\ \A slot \in {"valgrind_results", "valgrind_log"} :
                reports_dir[slot] # "none" => reports_dir'[slot] = reports_dir[slot]
          /\ \A slot \in {"xray_report", "test_summary"} :
                reports_dir[slot] # None => reports_dir'[slot] = reports_dir[slot]]_vars

\* C13 witness: a parse failure after a simulated escalation: the rerun's artifacts are
\* in the reports directory and there is no execution report
C13_Witness ==
    /\ aborted = "parse" /\ heavy = "simulated"
    /\ reports_dir.valgrind_results = "simulated"
    /\ reports_dir.test_results_valgrind # NoFile
    /\ ~ReportWritten

\* C17: with the forced-escalation override set, the detection step's outcome is
\* 'suspected' and the heavyweight step is taken whatever the scanner answers; with
\* the override not set, also when build_project never set the attribute, the outcome
\* is exactly the scanner's answer.
C17_ForcedOverride ==
    /\ light.ran =>
          memory_leaks_detected = (env_demo \/ check_memory_leaks(light.output))
    /\ (light.ran /\ RunStageOver) =>
          (heavy # "none" <=> (env_demo \/ check_memory_leaks(light.output)))
    /\ light.ran =>
          /\ leaks_detected(light.output, "unset") = check_memory_leaks(light.output)
          /\ leaks_detected(light.output, "true")

\* C17 witness: the override is set, the scanner finds nothing, and the rerun happened
C17_Witness ==
    /\ RunStageOver /\ light.ran /\ env_demo
    /\ ~check_memory_leaks(light.output)
    /\ memory_leaks_detected /\ heavy # "none"

\* the rerun step of this execution is over
EscalationOver == heavy # "none" /\ pc # "lightweight_done"

\* C22: whenever the escalated branch runs to completion, with the real or the
\* simulated analyzer, each of the two diagnostic files that exists in the build
\* directory (the structured document and the raw log) has been copied to the reports
\* directory, whether or not the other exists, and the step ends without an error in
\* every combination of the two files existing.
C22_BothArtifactsCopied ==
    EscalationOver =>
        /\ aborted # "crash"
        /\ valgrind_xml # "none" => reports_dir.valgrind_results = valgrind_xml
        /\ valgrind_log # "none" => reports_dir.valgrind_log = valgrind_log

\* the invocation of the test executable that ran last in this execution
LastInvocation == IF heavy # "none" THEN "heavy" ELSE "light"

\* C23: the result document the run stage returns was written by the most recent
\* invocation of the test executable in this execution (the lightweight run on the
\* clean path, the rerun on the escalated path), never by an earlier invocation or
\* an earlier execution.
C23_ReturnedDocumentIsFresh ==
    (prog = "runner" /\ Returned(results_file)) => results_file.by = LastInvocation

\* the execution that differs from this one only in that no suspicion was raised:
\* the document run_tests returns, whether a report is written, and the exit status
TwinResultsFile == clean_returns(light.returncode, temp_results_file)
TwinReports     == parse_test_results(TwinResultsFile) # None
TwinExit        ==
    IF TwinReports THEN run_exit(parse_test_results(TwinResultsFile)) ELSE "failure"

\* C24: leak detection never changes whether a report is generated: an execution in
\* which suspicion was raised writes an execution report exactly when the execution
\* with the same build result, the same exit code of the test executable and the
\* same result document but no suspicion writes one, and both end with the same
\* exit status.  (An execution that ended in an uncaught error is left aside.)
C24_DetectionNeverChangesReporting ==
    (prog = "runner" /\ pc = "done" /\ EscalationOver /\ aborted # "crash") =>
        /\ ReportWritten <=> TwinReports
        /\ exit_status = TwinExit

-----------------------------------------------------------------------------
(* Properties of the parsers (SpecParse).                                  *)

\* the case elements of a document, in order
CasesOf(doc) == Flatten([i \in 1..Len(doc.suites) |-> doc.suites[i].cases])

\* C6: parse returns the parse-error value only when the document as a whole cannot
\* be decoded; for every well-formed document, also one with suites and cases, it
\* returns a TestRun.
C6_ParseFailsOnlyOnUndecodableDocument ==
    /\ (runner_parsed # NotCalled /\ WellFormed(parse_doc)) => runner_parsed # None
    /\ (junit_parsed # NotCalled /\ WellFormed(parse_doc)) => junit_parsed # None

\* C7: for every TestRun parse returns, passed = total - failed - errored - skipped,
\* and a document with a malformed numeric field still yields such a TestRun.
C7_PassedIsTotalMinusFailedErroredSkipped ==
    /\ Returned(runner_parsed) =>
          runner_parsed.passed =
              runner_parsed.total - runner_parsed.failed
                  - errored_in(parse_doc.doc) - runner_parsed.skipped
    /\ Returned(junit_parsed) =>
          junit_parsed.summary.passed =
              junit_parsed.summary.total - junit_parsed.summary.failed
                  - junit_parsed.summary.errors - junit_parsed.summary.skipped
    /\ (runner_parsed # NotCalled /\ WellFormed(parse_doc)) => runner_parsed # None

\* C8: an absent or malformed numeric attribute of a suite or a case counts as zero
\* and the parse still returns a TestRun.
C8_MalformedNumericIsZero ==
    (runner_parsed # NotCalled /\ WellFormed(parse_doc)) =>
        /\ runner_parsed # None
        /\ LET ss == parse_doc.doc.suites
           IN  /\ runner_parsed.total = SumSeq([i \in 1..Len(ss) |-> IntOf(ss[i].tests)])
               /\ runner_parsed.failed = SumSeq([i \in 1..Len(ss) |-> IntOf(ss[i].failures)])
               /\ runner_parsed.skipped = SumSeq([i \in 1..Len(ss) |-> IntOf(ss[i].skipped)])
               /\ \A k \in 1..Len(runner_parsed.tests) :
                     runner_parsed.tests[k].time = FloatOf(CasesOf(parse_doc.doc)[k].time)

\* the outcome the precedence failure > error > skipped > passed gives
PrecedenceOutcome(markers) ==
    IF "failure" \in markers THEN "failed"
    ELSE IF "error" \in markers THEN "errored"
    ELSE IF "skipped" \in markers THEN "skipped"
    ELSE "passed"

\* the outcome a parsed status names ("error" is the generator's word for errored)
Outcome(status) == IF status = "error" THEN "errored" ELSE status

\* C9: the parsed outcome of every case element follows failure > error > skipped >
\* passed.
C9_OutcomePrecedence ==
    /\ Returned(runner_parsed) =>
          \A k \in 1..Len(runner_parsed.tests) :
              Outcome(runner_parsed.tests[k].status)
                  = PrecedenceOutcome(CasesOf(parse_doc.doc)[k].markers)
    /\ Returned(junit_parsed) =>
          \A i \in 1..Len(junit_parsed.testsuites) :
              \A j \in 1..Len(junit_parsed.testsuites[i].tests.list) :
                  Outcome(junit_parsed.testsuites[i].tests.list[j].status)
                      = PrecedenceOutcome(parse_doc.doc.suites[i].cases[j].markers)

\* the parsed cases with a status
WithStatus(tests, status) == Cardinality({ k \in 1..Len(tests) : tests[k].status = status })

\* C21: the aggregate counts of a parsed TestRun are derived from its cases: total is
\* the number of parsed cases, and failed, errored and skipped are the numbers of
\* cases with that outcome, for every document, also one whose suite-level count
\* attributes disagree with its case elements.
C21_CountsDerivedFromCases ==
    /\ Returned(runner_parsed) =>
          /\ runner_parsed.total = Len(runner_parsed.tests)
          /\ runner_parsed.failed = WithStatus(runner_parsed.tests, "failed")
          /\ runner_parsed.skipped = WithStatus(runner_parsed.tests, "skipped")
    /\ Returned(junit_parsed) =>
          LET tests == junit_tests(junit_parsed)
          IN  /\ junit_parsed.summary.total = Len(tests)
              /\ junit_parsed.summary.failed = WithStatus(tests, "failed")
              /\ junit_parsed.summary.errors = WithStatus(tests, "error")
              /\ junit_parsed.summary.skipped = WithStatus(tests, "skipped")

\* C20: for every parsed case, a failure or error payload is present iff the case's
\* outcome is failed or errored; a passed or skipped case carries none, also when the
\* case element has several markers.  (For parse_junit_xml the cases are the test
\* dicts it builds, lines 62-98.)
C20_PayloadIffFailedOrErrored ==
    /\ Returned(runner_parsed) =>
          \A k \in 1..Len(runner_parsed.tests) :
              LET test == runner_parsed.tests[k]
              IN  test.failure # "None" <=> test.status \in {"failed", "error"}
    /\ (junit_parsed # NotCalled /\ WellFormed(parse_doc)
           /\ ~junit_convert_raises(parse_doc.doc)) =>
          \A k \in 1..Len(CasesOf(parse_doc.doc)) :
              LET test == junit_test(CasesOf(parse_doc.doc)[k])
              IN  (test.failure # "None" \/ test.error # "None")
                      <=> test.status \in {"failed", "error"}

-----------------------------------------------------------------------------
(* Properties of the report builders (SpecBuild).                          *)

\* the status table of the specification, as characters
TableStatus(status) ==
    CASE status = "passed"  -> <<"P", "A", "S", "S", "E", "D">>
      [] status = "failed"  -> <<"F", "A", "I", "L", "E", "D">>
      [] status = "error"   -> <<"F", "A", "I", "L", "E", "D">>
      [] status = "skipped" -> <<"S", "K", "I", "P", "P", "E", "D">>
      [] status = "blocked" -> <<"B", "L", "O", "C", "K", "E", "D">>

\* the configuration holds no status table
NoStatusTable == build_config \notin { ConfigOf(StatusTable, KeyTable) }

\* C14: with no override table configured, a parsed outcome translates as
\* passed->PASSED, failed->FAILED, errored->FAILED, skipped->SKIPPED, and an
\* unrecognized status translates to its upper-cased literal form; the runner's
\* builder gives PASSED to a passed case and FAILED to a failed one.
C14_StatusTranslation ==
    /\ (builder = "generator" /\ NoStatusTable /\ mapped # NotCalled) =>
          mapped.xray = TableStatus(mapped.status)
    /\ (builder = "generator" /\ NoStatusTable) =>
          \A b \in 1..Len(built) : \A k \in 1..Len(built[b].tests) :
              built[b].tests[k].status =
                  TableStatus(junit_status(CasesOf(build_doc)[k].markers))
    /\ builder = "runner" =>
          \A b \in 1..Len(built) : \A k \in 1..Len(built[b].tests) :
              built[b].tests[k].status =
                  (IF "failure" \in CasesOf(build_doc)[k].markers
                   THEN "FAILED" ELSE "PASSED")

\* the name->key table in force: the five pairs of the runner, or the configured
\* automationMapping of the generator (none when the configuration lacks it)
TableInForce ==
    IF builder = "runner"
    THEN { Item("CreateMessage", <<"CHATCPP-TC-001">>),
           Item("ToString", <<"CHATCPP-TC-002">>),
           Item("FromString", <<"CHATCPP-TC-003">>),
           Item("InvalidString", <<"CHATCPP-TC-004">>),
           Item("TimestampUpdate", <<"CHATCPP-TC-005">>) }
    ELSE IF build_config \in { ConfigOf({}, KeyTable), ConfigOf(StatusTable, KeyTable) }
         THEN KeyTable
         ELSE {}

\* the key the table in force gives a name
KeyInForce(name, key) ==
    IF \E item \in TableInForce : item.key = name
    THEN \E item \in TableInForce : item.key = name /\ key = item.value
    ELSE key = <<"CHATCPP-TC-", name>>

\* C15: the key of every entry is the table's value for the test's name when the
\* table has the name, and the synthesized key CHATCPP-TC-<name> otherwise; the lookup
\* never fails, also when the configuration or the table is missing or empty: under
\* every configuration it gives every name its key.
C15_KeyLookup ==
    /\ \A b \in 1..Len(built) :
          /\ Len(built[b].tests) = Len(CasesOf(build_doc))
          /\ \A k \in 1..Len(built[b].tests) :
                KeyInForce(CasesOf(build_doc)[k].name, built[b].tests[k].testKey)
    /\ builder = "generator" =>
          \A name \in BuildNames \cup CaseNames :
              KeyInForce(name, map_test_to_xray_key(build_config, name))
    /\ builder = "runner" =>
          \A name \in BuildNames \cup CaseNames :
              KeyInForce(name, test_case_mapping(name))

\* C15 witness: the generator, with a table configured, built a report with a mapped
\* and a synthesized key; and with no configuration at all, a synthesized one
C15_Witness ==
    /\ builder = "generator" /\ Len(built) > 0
    /\ build_config = ConfigOf({}, KeyTable)
    /\ Len(built[1].tests) = 2
    /\ built[1].tests[1].testKey = <<"CHATCPP-TC-002">>
    /\ built[1].tests[2].testKey = <<"CHATCPP-TC-", "SendMessage">>

\* the instant a report's run starts at
RunStart(report) == report.testExecutionKey.at

\* C16: entries are in the original case order and their instants accumulate from
\* the run-start instant: the first entry starts at the run-start, every entry
\* finishes at its start plus its elapsed time, and every later entry starts where
\* the one before it finished, across suite boundaries too.
C16_SequentialInstants ==
    \A b \in 1..Len(built) :
        LET tests == built[b].tests
            cases == CasesOf(build_doc)
        IN  /\ Len(tests) = Len(cases)
            /\ \A k \in 1..Len(tests) :
                  /\ tests[k].finish = tests[k].start + FloatOf(cases[k].time)
                  /\ tests[k].start = (IF k = 1 THEN RunStart(built[b])
                                       ELSE tests[k - 1].finish)

\* a report without its execution identity and its timestamps
Timeless(report) ==
    [description      |-> report.description,
     testPlanKey      |-> report.testPlanKey,
     testEnvironments |-> report.testEnvironments,
     tests |-> [k \in 1..Len(report.tests) |->
                  [testKey |-> report.tests[k].testKey,
                   status  |-> report.tests[k].status,
                   comment |-> report.tests[k].comment]]]

\* C19: two reports built from the same TestRun, diagnostic outcome and context are
\* identical but for the execution identity and the timestamps: same entries in the
\* same order, same keys, statuses, comments, description, plan and environment.
C19_BuildTwiceSameReport ==
    \A a \in 1..Len(built), b \in 1..Len(built) :
        Timeless(built[a]) = Timeless(built[b])

\* C19 witness: the second report was built a second later than the first and has
\* the same entries
C19_Witness ==
    /\ Len(built) = 2 /\ builder = "runner"
    /\ Len(built[1].tests) = 2
    /\ RunStart(built[1]) # RunStart(built[2])
    /\ built[1].tests[1].start # built[2].tests[1].start
    /\ Timeless(built[1]) = Timeless(built[2])

-----------------------------------------------------------------------------
(* Properties of two concurrent executions (SpecConc).                     *)

\* C18: two executions running concurrently on one workspace never overwrite each
\* other's persisted artifacts, each write going to a name unique to its execution:
\* every file an execution wrote is in the reports directory as that execution
\* wrote it.
C18_ConcurrentRunsKeepTheirArtifacts ==
    \A p \in Invocations : \A name \in inv[p].wrote :
        \E f \in directory : f.name = name /\ f.by = p

-----------------------------------------------------------------------------
(* Properties of the scanner (SpecScan).                                   *)

EightSignatures ==
    { <<"d", "i", "r", "e", "c", "t", " ", "l", "e", "a", "k">>,
      <<"i", "n", "d", "i", "r", "e", "c", "t", " ", "l", "e", "a", "k">>,
      <<"s", "t", "i", "l", "l", " ", "r", "e", "a", "c", "h", "a", "b", "l", "e">>,
      <<"h", "e", "a", "p", "-", "u", "s", "e", "-", "a", "f", "t", "e", "r", "-", "f", "r", "e", "e">>,
      <<"h", "e", "a", "p", "-", "b", "u", "f", "f", "e", "r", "-", "o", "v", "e", "r", "f", "l", "o", "w">>,
      <<"s", "t", "a", "c", "k", "-", "b", "u", "f", "f", "e", "r", "-", "o", "v", "e", "r", "f", "l", "o", "w">>,
      <<"g", "l", "o", "b", "a", "l", "-", "b", "u", "f", "f", "e", "r", "-", "o", "v", "e", "r", "f", "l", "o", "w">>,
      <<"l", "e", "a", "k", "s", "a", "n", "i", "t", "i", "z", "e", "r">> }

\* the same character, or the two cases of one letter
SameLetter(a, b) ==
    \/ a = b
    \/ \E i \in 1..Len(UpperLetters) :
          \/ a = UpperLetters[i] /\ b = LowerLetters[i]
          \/ a = LowerLetters[i] /\ b = UpperLetters[i]

\* text holds one of the eight signatures somewhere, whatever the case of its letters
HoldsSignature(text) ==
    \E sig \in EightSignatures :
        \E at \in 1..(Len(text) - Len(sig) + 1) :
            \A j \in 1..Len(sig) : SameLetter(text[at + j - 1], sig[j])

\* C10: scan(text) is true iff text holds, compared case-insensitively, one of the
\* eight signatures as a substring; the answer of a call depends on its text alone,
\* whatever was scanned before.
C10_ScanIffSignaturePresent ==
    scan_calls > 0 => (scan_result <=> HoldsSignature(scan_text))

\* C10 witness: a later call finds an upper-cased signature inside other text, after
\* the call before it scanned something else
C10_Witness ==
    /\ scan_calls > 1
    /\ scan_result
    /\ scan_text = NoisePrefix \o upper(leak_indicators[4]) \o NoiseSuffix

=============================================================================
